---- MODULE Spec2Model ----
(***************************************************************************)
(* State-machine model of gammazero/alog: the asynchronous logger.         *)
(*                                                                         *)
(* Two engines live in the repository: the leveled, structured logger      *)
(* (logger.go, with the scoped fieldLogger) built by NewText / NewJSON,    *)
(* and the simple Logger built by New, which is stopped by a nil sentinel  *)
(* instead of by closing the entry channel.  Both are modelled by the same *)
(* variables; writeFunc tells which engine a behaviour is about            *)
(* ("writeText", "writeJSON": leveled; "output": simple).                  *)
(*                                                                         *)
(* A Go map is a heap object: Fields values are references into heap, so   *)
(* that two holders of one map see each other's writes.                    *)
(***************************************************************************)
EXTENDS Integers, Sequences, FiniteSets, TLC

VARIABLES
    writeFunc,   \* logger.writeFunc: "writeText" | "writeJSON"; "output" is the simple Logger
    level,       \* logger.level, after newLogger's clamp
    tsLayout,    \* logger.tsLayout, after newLogger's normalisation ("" = no timestamp)
    prefix,      \* logger.prefix
    entChan,     \* logger.entChan: the buffered entries, oldest first
    chanClosed,  \* TRUE once close(a.entChan) has run
    doneChan,    \* TRUE once close(a.doneChan) has run
    out,         \* the io.Writer: the Write calls that returned, in order
    inWrite,     \* the Write calls in progress: who issued each and its bytes
    heap,        \* the Go maps allocated so far; a Fields value is an index
    loggers,     \* the logger handles: 1 is the base *logger, the rest *fieldLogger
    pc,          \* where each producer goroutine is
    cont,        \* what a producer does when its Close returns
    exited,      \* TRUE once os.Exit(1) has run
    cpc,         \* where the consumer goroutine (run) is
    ncalls,      \* number of calls of the logger's API so far; also the clock of time.Now()
    lastCall,    \* history: the most recent log call and what it did
    enq,         \* history: the entries sent on entChan, in the order the sends completed
    dropped,     \* history: entries writeJSON gave up on (its "Failed to marshal" print)
    closeMark,   \* history: who first shut the running engine down; Len(enq), Len(entChan) then
    closeRet,    \* history: the producers whose Close has returned
    lim,         \* the bounds of the behaviour: calls, logger handles, use after Close
    writes,      \* history: the Write calls that have returned, in order, and how
    finpc,       \* where the finalizer closeLogger is: "armed" by SetFinalizer, or run
    asked        \* history: the level argument the constructor was called with

vars == <<writeFunc, level, tsLayout, prefix, entChan, chanClosed, doneChan, out,
          inWrite, heap, loggers, pc, cont, exited, cpc, ncalls, lastCall, enq,
          dropped, closeMark, closeRet, lim, writes, finpc, asked>>

----------------------------------------------------------------------------
(* Bounds of the model. *)

\* producer goroutines of the engine specification
NumProducers == 2
\* calls of the API in one behaviour of the engine specification
MaxCalls == 4
\* calls of the API by the single producer that fills the channel
FullCalls == 66
\* calls of the API in one behaviour of the level specification
MaxLevelCalls == 3
\* calls of the API in one behaviour of the field specification
MaxFieldCalls == 4
\* logger handles (base included) in one behaviour of the field specification
MaxLoggers == 4
\* API calls and stores into argument maps in one behaviour of the aliasing
\* specification
MaxAliasCalls == 4
\* API calls in one behaviour of the reserved-key specification
MaxReservedCalls == 3
\* API calls in one behaviour of the shutdown specification
MaxShutdownCalls == 4
\* API calls in one behaviour of the failing-sink specification
MaxSinkCalls == 5
\* API calls in one behaviour of the delivery specification
MaxLiveCalls == 4
\* API calls in one behaviour of the double-close specification
MaxDoubleCalls == 5
\* API calls in one behaviour of the finalizer specification
MaxFinalCalls == 5
\* encoder calls in one behaviour of the encoder specification
MaxEncodings == 2
\* API calls (WithFields, WithField) in one behaviour of the encoder specification
MaxEncodeCalls == 2

----------------------------------------------------------------------------
(* Program constants. *)

NoLevel == 0
PanicLevel == 1
FatalLevel == 2
ErrorLevel == 3
WarnLevel == 4
InfoLevel == 5
DebugLevel == 6

\* make(chan *entry, 64)
ChanCap == 64

levelNames == <<"", "panic", "fatal", "error", "warn", "info", "debug">>

levelNamesText == <<"", " PANIC ", " FATAL ", " ERROR ", " WARN ", " INFO ", " DEBUG ">>

defaultTimeLayout == "Jan 02 15:04:05"

levelField == "level"
extLevelField == "fields.level"
msgField == "msg"
extMsgField == "fields.msg"
timeField == "time"
extTimeField == "fields.time"

\* a nil Fields value
Nil == 0

\* the goroutine started by `go a.run()`; the producers are 1, 2, ...
consumer == 0

----------------------------------------------------------------------------
(* Values.  A field value is a string, an error (whose Error() is s) or a  *)
(* value encoding/json cannot marshal (a channel).  The values the JSON    *)
(* encoder computes are the formatted time and the rendered message.       *)

StrVal(s) == [kind |-> "str", s |-> s, n |-> 0]
ErrVal(s) == [kind |-> "err", s |-> s, n |-> 0]
ChanVal == [kind |-> "chan", s |-> "", n |-> 0]

\* the value of Fields{"foo": "bar"}, the field the tests attach
BarVal == StrVal("bar")

\* ent.ts.Format(a.tsLayout): the external formatter, applied to (time, layout)
FormatTime(ts, layout) == [kind |-> "time", s |-> layout, n |-> ts]

\* fmt.Sprintf / fmt.Sprintln / fmt.Sprint of the call's arguments: the external
\* formatter, named by its verb; args stand for the argument list
Rendered(verb, args) == [kind |-> "msg", s |-> verb, n |-> args]

\* fmt.Sprint(v) of a field value, as writeText prints it
SprintField(v) == IF v.kind = "chan" THEN "0xc000" ELSE v.s

\* strings.TrimSpace, on the layouts the model draws
TrimSpace(s) == IF s = " " THEN "" ELSE s

EmptyMap == <<>>

\* m[k] = v on a Go map
Put(m, k, v) == [x \in (DOMAIN m) \cup {k} |-> IF x = k THEN v ELSE m[x]]

\* the orders in which `for k, v := range m` may visit the keys of m
RangeOrders(m) ==
    {s \in [1..Cardinality(DOMAIN m) -> DOMAIN m] :
        \A i, j \in 1..Cardinality(DOMAIN m) : i # j => s[i] # s[j]}

----------------------------------------------------------------------------
(* Entries. *)

\* &entry{ts: time.Now(), level:, format:, args:, fields:, ln:}.  by and lg are
\* history: the producer that made the call and the handle it used.
Entry(ts, lvl, mode, flds, p, lg) ==
    [ts |-> ts, level |-> lvl, format |-> IF mode = "f" THEN "F" ELSE "",
     args |-> ts, fields |-> flds, ln |-> (mode = "ln"), by |-> p, lg |-> lg]

\* the nil *entry the simple Logger's Close sends
nilEntry ==
    [ts |-> 0, level |-> NoLevel, format |-> "", args |-> 0, fields |-> Nil,
     ln |-> FALSE, by |-> 0, lg |-> 0]

Modes == {"", "ln", "f"}

Leveled == writeFunc # "output"

Producers == DOMAIN pc

\* the application may make another call of the logger's API
MayCall == ncalls < lim.calls /\ (lim.reuse \/ closeMark.by = 0)

----------------------------------------------------------------------------
(* The encoders.  A line of text is the sequence of the pieces appended to  *)
(* a.buf; a JSON line is the marshalled map (encoding/json sorts the keys,  *)
(* so the map determines the bytes).  nl is the trailing '\n' of the bytes  *)
(* handed to Write.                                                         *)

Tok(t, n, k, v) == [t |-> t, n |-> n, k |-> k, v |-> v]

Payload(ent, text, obj, nl) == [ent |-> ent.ts, text |-> text, obj |-> obj, nl |-> nl]

\* the message part of a line, for the text encoders
TextMsg(ent) ==
    IF ent.format # "" THEN Tok("msg", ent.args, "Sprintf", "")
    ELSE IF ent.ln THEN Tok("msg", ent.args, "Sprintln", "")
    ELSE Tok("msg", ent.args, "Sprint", "")

\* the fields of an entry, as the map they refer to (nil ranges as empty)
FieldsOf(ent) == IF ent.fields = Nil THEN EmptyMap ELSE heap[ent.fields]

\* logger.writeText: the bytes of the one Write call; order is the order in
\* which the range over ent.fields visits its keys
writeText(ent, order) ==
    LET pfx == IF prefix # "" THEN <<Tok("prefix", 0, "", prefix)>> ELSE <<>>
        tsp == IF tsLayout # "" THEN <<Tok("ts", ent.ts, tsLayout, "")>> ELSE <<>>
        lab == IF level # NoLevel /\ ent.level # NoLevel
               THEN <<Tok("label", 0, "", levelNamesText[ent.level + 1])>>
               ELSE <<Tok("sp", 0, "", " ")>>
        fls == [i \in 1..Len(order) |->
                   Tok("field", 0, order[i], SprintField(FieldsOf(ent)[order[i]]))]
    IN  Payload(ent, pfx \o tsp \o lab \o <<TextMsg(ent)>> \o fls, EmptyMap, TRUE)

\* Logger.output of the simple Logger
output(ent) ==
    LET pfx == IF prefix # "" THEN <<Tok("prefix", 0, "", prefix)>> ELSE <<>>
        tsp == IF tsLayout # ""
               THEN <<Tok("ts", ent.ts, tsLayout, ""), Tok("sp", 0, "", " ")>>
               ELSE <<>>
    IN  Payload(ent, pfx \o tsp \o <<TextMsg(ent)>>, EmptyMap, TRUE)

\* logger.writeJSON, up to json.Marshal: the map ent.fields refers to after the
\* encoder has stored its keys into it
jsonFields(ent) ==
    LET m0 == FieldsOf(ent)
        m1 == [k \in DOMAIN m0 |-> IF m0[k].kind = "err" THEN StrVal(m0[k].s) ELSE m0[k]]
        m2 == IF tsLayout # ""
              THEN Put(IF timeField \in DOMAIN m1 THEN Put(m1, extTimeField, m1[timeField])
                       ELSE m1,
                       timeField, FormatTime(ent.ts, tsLayout))
              ELSE m1
        m3 == IF level # NoLevel /\ ent.level # NoLevel
              THEN Put(IF levelField \in DOMAIN m2
                       THEN Put(m2, extLevelField, m2[levelField]) ELSE m2,
                       levelField, StrVal(levelNames[ent.level + 1]))
              ELSE m2
        m4 == Put(IF msgField \in DOMAIN m3 THEN Put(m3, extMsgField, m3[msgField]) ELSE m3,
                  msgField,
                  IF ent.format # "" THEN Rendered("Sprintf", ent.args)
                  ELSE Rendered("Sprint", ent.args))
    IN  m4

\* json.Marshal encoding every value
marshalFails_never(m) == FALSE

\* json.Marshal(ent.fields) returns an error
marshalFails(m) == \E k \in DOMAIN m : m[k].kind = "chan"

\* logger.writeJSON: the bytes of its Write call
writeJSON(ent) == Payload(ent, <<>>, jsonFields(ent), TRUE)

\* the heap after writeJSON(ent): the encoder writes into the map itself
heapAfterJSON(ent) ==
    IF ent.fields = Nil THEN heap ELSE [heap EXCEPT ![ent.fields] = jsonFields(ent)]

\* the line and its newline handed to the Writer in two calls
WriteCall_split(who, bytes) ==
    inWrite' = inWrite \o <<[by |-> who, bytes |-> [bytes EXCEPT !.nl = FALSE]],
                            [by |-> who, bytes |-> [bytes EXCEPT !.text = <<>>,
                                                                 !.obj = EmptyMap]]>>

\* the encoder returning without its call of Write
WriteCall_skipped(who, bytes) == inWrite' = inWrite

\* a.out.Write(bytes) is entered by task who
WriteCall(who, bytes) == inWrite' = Append(inWrite, [by |-> who, bytes |-> bytes])

----------------------------------------------------------------------------
(* The consumer goroutine: logger.run / Logger.run. *)

\* the receive of `range a.entChan` taking the newest entry instead of the oldest
recv_newestFirst ==
    [ent |-> entChan[Len(entChan)], rest |-> SubSeq(entChan, 1, Len(entChan) - 1)]

\* a receive that passes over the nil entry while entries are buffered
recv_skipsNil ==
    LET live == SelectSeq(entChan, LAMBDA e : e # nilEntry)
    IN  IF live = <<>> THEN [ent |-> Head(entChan), rest |-> Tail(entChan)]
        ELSE [ent |-> Head(live), rest |-> Tail(live)]

\* the receive of `for ent := range a.entChan`: the oldest buffered entry
recv == [ent |-> Head(entChan), rest |-> Tail(entChan)]

\* one iteration of `for ent := range a.entChan`: receive, then writeFunc(ent)
\* up to its call of Write; the simple Logger breaks on the nil entry
run ==
    /\ ~exited
    /\ cpc = "recv"
    /\ entChan # <<>>
    /\ LET ent == recv.ent IN
        /\ entChan' = recv.rest
        /\ IF writeFunc = "output"
           THEN IF ent = nilEntry
                THEN /\ doneChan' = TRUE
                     /\ cpc' = "done"
                     /\ UNCHANGED <<inWrite, heap, dropped>>
                ELSE /\ WriteCall(consumer, output(ent))
                     /\ cpc' = "write"
                     /\ UNCHANGED <<doneChan, heap, dropped>>
           ELSE IF writeFunc = "writeText"
           THEN /\ \E order \in RangeOrders(FieldsOf(ent)) :
                       WriteCall(consumer, writeText(ent, order))
                /\ cpc' = "write"
                /\ UNCHANGED <<doneChan, heap, dropped>>
           ELSE /\ heap' = heapAfterJSON(ent)
                /\ IF marshalFails(jsonFields(ent))
                   THEN /\ dropped' = Append(dropped, ent.ts)
                        /\ UNCHANGED <<inWrite, cpc>>
                   ELSE /\ WriteCall(consumer, writeJSON(ent))
                        /\ cpc' = "write"
                        /\ UNCHANGED dropped
                /\ UNCHANGED doneChan
    /\ UNCHANGED <<writeFunc, level, tsLayout, prefix, chanClosed, out, loggers, pc,
                   cont, exited, ncalls, lastCall, enq, closeMark, closeRet, lim, writes, finpc, asked>>

\* a.out.Write returns: the bytes are in the sink, the consumer loops
WriteReturn ==
    /\ ~exited
    /\ cpc = "write"
    /\ inWrite # <<>>
    /\ out' = Append(out, Head(inWrite).bytes)
    /\ writes' = Append(writes, [ent |-> Head(inWrite).bytes.ent, ok |-> TRUE])
    /\ inWrite' = Tail(inWrite)
    /\ cpc' = "recv"
    /\ UNCHANGED <<writeFunc, level, tsLayout, prefix, entChan, chanClosed, doneChan,
                   heap, loggers, pc, cont, exited, ncalls, lastCall, enq, dropped,
                   closeMark, closeRet, lim, finpc, asked>>

\* a failed Write ending the consumer's loop
WriteError_stops ==
    /\ ~exited
    /\ cpc = "write"
    /\ inWrite # <<>>
    /\ writes' = Append(writes, [ent |-> Head(inWrite).bytes.ent, ok |-> FALSE])
    /\ inWrite' = Tail(inWrite)
    /\ cpc' = "stopped"
    /\ UNCHANGED <<writeFunc, level, tsLayout, prefix, entChan, chanClosed, doneChan,
                   out, heap, loggers, pc, cont, exited, ncalls, lastCall, enq, dropped,
                   closeMark, closeRet, lim, finpc, asked>>

\* a.out.Write returns an error: the encoders drop the result of the call, the
\* consumer loops; the bytes are not counted as in the sink
WriteError ==
    /\ ~exited
    /\ cpc = "write"
    /\ inWrite # <<>>
    /\ writes' = Append(writes, [ent |-> Head(inWrite).bytes.ent, ok |-> FALSE])
    /\ inWrite' = Tail(inWrite)
    /\ cpc' = "recv"
    /\ UNCHANGED <<writeFunc, level, tsLayout, prefix, entChan, chanClosed, doneChan,
                   out, heap, loggers, pc, cont, exited, ncalls, lastCall, enq, dropped,
                   closeMark, closeRet, lim, finpc, asked>>

\* the consumer leaving its loop as soon as the channel is closed, entries or not
runExit_noDrain ==
    /\ ~exited
    /\ cpc = "recv"
    /\ chanClosed
    /\ doneChan' = TRUE
    /\ cpc' = "done"
    /\ UNCHANGED <<writeFunc, level, tsLayout, prefix, entChan, chanClosed, out,
                   inWrite, heap, loggers, pc, cont, exited, ncalls, lastCall, enq,
                   dropped, closeMark, closeRet, lim, writes, finpc, asked>>

\* the range loop ends and run returns without close(a.doneChan)
runExit_noSignal ==
    /\ ~exited
    /\ cpc = "recv"
    /\ entChan = <<>>
    /\ chanClosed
    /\ cpc' = "done"
    /\ UNCHANGED <<writeFunc, level, tsLayout, prefix, entChan, chanClosed, doneChan,
                   out, inWrite, heap, loggers, pc, cont, exited, ncalls, lastCall, enq,
                   dropped, closeMark, closeRet, lim, writes, finpc, asked>>

\* the range loop ends on the closed, drained channel: close(a.doneChan)
runExit ==
    /\ ~exited
    /\ cpc = "recv"
    /\ entChan = <<>>
    /\ chanClosed
    /\ doneChan' = TRUE
    /\ cpc' = "done"
    /\ UNCHANGED <<writeFunc, level, tsLayout, prefix, entChan, chanClosed, out,
                   inWrite, heap, loggers, pc, cont, exited, ncalls, lastCall, enq,
                   dropped, closeMark, closeRet, lim, writes, finpc, asked>>

----------------------------------------------------------------------------
(* The producers' side: the log calls. *)

\* the comparison of LogableAt off by one: the threshold's own level is rejected
LogableAt_exclusive(lvl) == ~(level # NoLevel /\ level <= lvl)

\* LogableAt that lets every level through
LogableAt_always(lvl) == TRUE

\* logger.LogableAt
LogableAt(lvl) == ~(level # NoLevel /\ level < lvl)

\* history of a log call: its number, producer, handle, severity and outcome, and
\* the severities of all the log calls so far
CallRecord(p, lg, sev, res) ==
    [n |-> ncalls + 1, by |-> p, lg |-> lg, sev |-> sev, res |-> res,
     all |-> lastCall.all \cup {sev}]

\* a send that never waits: the channel grows beyond its capacity
send_noWait(p, ent, next) ==
    IF chanClosed
    THEN /\ pc' = [pc EXCEPT ![p] = "sendOnClosed"]
         /\ lastCall' = CallRecord(p, ent.lg, ent.level, "panic")
         /\ UNCHANGED <<entChan, enq>>
    ELSE /\ entChan' = Append(entChan, ent)
         /\ enq' = Append(enq, ent)
         /\ pc' = [pc EXCEPT ![p] = next]
         /\ lastCall' = CallRecord(p, ent.lg, ent.level, "enqueued")

\* a send that finds no slot once the consumer has gone
send_blockedAfterDone(p, ent, next) ==
    IF chanClosed
    THEN /\ pc' = [pc EXCEPT ![p] = "sendOnClosed"]
         /\ lastCall' = CallRecord(p, ent.lg, ent.level, "panic")
         /\ UNCHANGED <<entChan, enq>>
    ELSE /\ Len(entChan) < ChanCap
         /\ ~doneChan
         /\ entChan' = Append(entChan, ent)
         /\ enq' = Append(enq, ent)
         /\ pc' = [pc EXCEPT ![p] = next]
         /\ lastCall' = CallRecord(p, ent.lg, ent.level, "enqueued")

\* a send that returns quietly when the channel is closed
send_dropOnClosed(p, ent, next) ==
    IF chanClosed
    THEN /\ pc' = [pc EXCEPT ![p] = next]
         /\ lastCall' = CallRecord(p, ent.lg, ent.level, "dropped")
         /\ UNCHANGED <<entChan, enq>>
    ELSE /\ Len(entChan) < ChanCap
         /\ entChan' = Append(entChan, ent)
         /\ enq' = Append(enq, ent)
         /\ pc' = [pc EXCEPT ![p] = next]
         /\ lastCall' = CallRecord(p, ent.lg, ent.level, "enqueued")

\* a.entChan <- ent by producer p, who goes on at next: a send on a closed
\* channel is a run-time panic, a send on a full channel waits
send(p, ent, next) ==
    IF chanClosed
    THEN /\ pc' = [pc EXCEPT ![p] = "sendOnClosed"]
         /\ lastCall' = CallRecord(p, ent.lg, ent.level, "panic")
         /\ UNCHANGED <<entChan, enq>>
    ELSE /\ Len(entChan) < ChanCap
         /\ entChan' = Append(entChan, ent)
         /\ enq' = Append(enq, ent)
         /\ pc' = [pc EXCEPT ![p] = next]
         /\ lastCall' = CallRecord(p, ent.lg, ent.level, "enqueued")

\* logger.log / logln / logf, called with the handle's fields
log(p, lg, lvl, mode, next) ==
    IF ~LogableAt(lvl)
    THEN /\ pc' = [pc EXCEPT ![p] = next]
         /\ lastCall' = CallRecord(p, lg, lvl, "filtered")
         /\ UNCHANGED <<entChan, enq>>
    ELSE send(p, Entry(ncalls + 1, lvl, mode, loggers[lg].fields, p, lg), next)

\* a synchronous logger: the producer formats and calls Write itself
PrintCall_direct(p, lg, mode) ==
    /\ ~exited
    /\ pc[p] = "ready"
    /\ MayCall
    /\ lg \in 1..Len(loggers)
    /\ WriteCall(p, output(Entry(ncalls + 1, NoLevel, mode, loggers[lg].fields, p, lg)))
    /\ ncalls' = ncalls + 1
    /\ UNCHANGED <<writeFunc, level, tsLayout, prefix, entChan, chanClosed, doneChan,
                   out, heap, loggers, pc, cont, exited, cpc, lastCall, enq, dropped,
                   closeMark, closeRet, lim, writes, finpc, asked>>

\* Print / Println / Printf of logger, fieldLogger and the simple Logger
PrintCall(p, lg, mode) ==
    /\ ~exited
    /\ pc[p] = "ready"
    /\ MayCall
    /\ lg \in 1..Len(loggers)
    /\ send(p, Entry(ncalls + 1, NoLevel, mode, loggers[lg].fields, p, lg), "ready")
    /\ ncalls' = ncalls + 1
    /\ UNCHANGED <<writeFunc, level, tsLayout, prefix, chanClosed, doneChan, out,
                   inWrite, heap, loggers, cont, exited, cpc, dropped, closeMark,
                   closeRet, lim, writes, finpc, asked>>

\* Error / Warn / Info / Debug and their ln and f forms, of logger and fieldLogger
Log(p, lg, lvl, mode) ==
    /\ ~exited
    /\ Leveled
    /\ pc[p] = "ready"
    /\ MayCall
    /\ lg \in 1..Len(loggers)
    /\ lvl \in ErrorLevel..DebugLevel
    /\ log(p, lg, lvl, mode, "ready")
    /\ ncalls' = ncalls + 1
    /\ UNCHANGED <<writeFunc, level, tsLayout, prefix, chanClosed, doneChan, out,
                   inWrite, heap, loggers, cont, exited, cpc, dropped, closeMark,
                   closeRet, lim, writes, finpc, asked>>

\* the first statement of Panic / Fatal (and ln, f): the log call.  The handler
\* goes on with Close and then panic(msg) or os.Exit(1); kind is "panic" or "exit"
logThenClose(p, lg, lvl, mode, kind) ==
    /\ ~exited
    /\ pc[p] = "ready"
    /\ MayCall
    /\ lg \in 1..Len(loggers)
    /\ IF Leveled
       THEN log(p, lg, lvl, mode, "Close")
       ELSE send(p, Entry(ncalls + 1, NoLevel, mode, Nil, p, lg), "Close")
    /\ cont' = [cont EXCEPT ![p] = kind]
    /\ ncalls' = ncalls + 1
    /\ UNCHANGED <<writeFunc, level, tsLayout, prefix, chanClosed, doneChan, out,
                   inWrite, heap, loggers, exited, cpc, dropped, closeMark,
                   closeRet, lim, writes, finpc, asked>>

\* Panic raising its panic right after the log call, without Close
Panic_noClose(p, lg, mode) ==
    /\ ~exited
    /\ pc[p] = "ready"
    /\ MayCall
    /\ lg \in 1..Len(loggers)
    /\ log(p, lg, PanicLevel, mode, "panicked")
    /\ cont' = [cont EXCEPT ![p] = "panic"]
    /\ ncalls' = ncalls + 1
    /\ UNCHANGED <<writeFunc, level, tsLayout, prefix, chanClosed, doneChan, out,
                   inWrite, heap, loggers, exited, cpc, dropped, closeMark,
                   closeRet, lim, writes, finpc, asked>>

\* Panic / Panicln / Panicf
Panic(p, lg, mode) == logThenClose(p, lg, PanicLevel, mode, "panic")

\* Fatal / Fatalln / Fatalf
Fatal(p, lg, mode) == logThenClose(p, lg, FatalLevel, mode, "exit")

\* the history of the first shutdown of the running engine: who called Close,
\* how many entries had been sent and how many were buffered then, and whether
\* the application called it ("return") or Panic ("panic") or Fatal ("exit") did
markClose(p) ==
    closeMark' = IF closeMark.by = 0
                 THEN [by |-> p, n |-> Len(enq), occ |-> Len(entChan),
                       via |-> IF pc[p] = "Close" THEN cont[p] ELSE "return"]
                 ELSE closeMark

\* a Close that closes the channel only if it is open
closeEntChan_guarded(p) ==
    IF chanClosed
    THEN /\ pc' = [pc EXCEPT ![p] = "wait"]
         /\ UNCHANGED <<chanClosed, closeMark>>
    ELSE /\ chanClosed' = TRUE
         /\ pc' = [pc EXCEPT ![p] = "wait"]
         /\ markClose(p)

\* close(a.entChan) of logger.Close: closing a closed channel is a run-time panic
closeEntChan(p) ==
    IF chanClosed
    THEN /\ pc' = [pc EXCEPT ![p] = "closeOfClosed"]
         /\ UNCHANGED <<chanClosed, closeMark>>
    ELSE /\ chanClosed' = TRUE
         /\ pc' = [pc EXCEPT ![p] = "wait"]
         /\ markClose(p)

\* a Close that sends nil only while the consumer is running
sendNil_guarded(p) ==
    IF doneChan
    THEN /\ pc' = [pc EXCEPT ![p] = "wait"]
         /\ UNCHANGED <<entChan, closeMark>>
    ELSE /\ Len(entChan) < ChanCap
         /\ entChan' = Append(entChan, nilEntry)
         /\ pc' = [pc EXCEPT ![p] = "wait"]
         /\ markClose(p)

\* a.entChan <- nil of the simple Logger's Close: waits while the channel is full
sendNil(p) ==
    /\ Len(entChan) < ChanCap
    /\ entChan' = Append(entChan, nilEntry)
    /\ pc' = [pc EXCEPT ![p] = "wait"]
    /\ markClose(p)

\* Close, up to its wait on doneChan: called by the application (pc "ready") or
\* from inside Panic / Fatal (pc "Close")
Close(p) ==
    /\ ~exited
    /\ IF pc[p] = "Close"
       THEN UNCHANGED <<cont, ncalls>>
       ELSE /\ pc[p] = "ready"
            /\ MayCall
            /\ ncalls' = ncalls + 1
            /\ cont' = [cont EXCEPT ![p] = "return"]
    /\ IF Leveled
       THEN closeEntChan(p) /\ UNCHANGED entChan
       ELSE sendNil(p) /\ UNCHANGED chanClosed
    /\ UNCHANGED <<writeFunc, level, tsLayout, prefix, doneChan, out, inWrite, heap,
                   loggers, exited, cpc, lastCall, enq, dropped, closeRet, lim, writes, finpc, asked>>

\* `defer log.Close()` of a goroutine that is panicking after Panic raised its
\* panic: the deferred Close runs while the panic unwinds
DeferredClose(p) ==
    /\ ~exited
    /\ pc[p] = "panicked"
    /\ MayCall
    /\ ncalls' = ncalls + 1
    /\ IF Leveled
       THEN closeEntChan(p) /\ UNCHANGED entChan
       ELSE sendNil(p) /\ UNCHANGED chanClosed
    /\ UNCHANGED <<writeFunc, level, tsLayout, prefix, doneChan, out, inWrite, heap,
                   loggers, cont, exited, cpc, lastCall, enq, dropped, closeRet, lim,
                   writes, finpc, asked>>

\* Close returning without the wait on doneChan
CloseDone_noWait(p) ==
    /\ ~exited
    /\ pc[p] = "wait"
    /\ closeRet' = closeRet \cup {p}
    /\ pc' = [pc EXCEPT ![p] = IF cont[p] = "return" THEN "ready"
                                ELSE IF cont[p] = "panic" THEN "panicked" ELSE "exit"]
    /\ exited' = (cont[p] = "exit")
    /\ UNCHANGED <<writeFunc, level, tsLayout, prefix, entChan, chanClosed, doneChan,
                   out, inWrite, heap, loggers, cont, cpc, ncalls, lastCall, enq,
                   dropped, closeMark, lim, writes, finpc, asked>>

\* <-a.doneChan returns and so does Close; Panic then panics with the message,
\* Fatal calls os.Exit(1)
CloseDone(p) ==
    /\ ~exited
    /\ pc[p] = "wait"
    /\ doneChan
    /\ closeRet' = closeRet \cup {p}
    /\ pc' = [pc EXCEPT ![p] = IF cont[p] = "return" THEN "ready"
                                ELSE IF cont[p] = "panic" THEN "panicked" ELSE "exit"]
    /\ exited' = (cont[p] = "exit")
    /\ UNCHANGED <<writeFunc, level, tsLayout, prefix, entChan, chanClosed, doneChan,
                   out, inWrite, heap, loggers, cont, cpc, ncalls, lastCall, enq,
                   dropped, closeMark, lim, writes, finpc, asked>>

----------------------------------------------------------------------------
(* Scoped loggers. *)

\* the two copy loops of fieldLogger.WithFields: every pair of src stored into dst
copyInto(dst, src) ==
    [k \in (DOMAIN dst) \cup (DOMAIN src) |-> IF k \in DOMAIN src THEN src[k] ELSE dst[k]]

\* the copy loops in the other order: the receiver's values shadow the argument's
newFields_parentWins(own, arg) == copyInto(copyInto(EmptyMap, arg), own)

\* fieldLogger.WithFields: newFields, from the receiver's map and the argument
newFields(own, arg) == copyInto(copyInto(EmptyMap, own), arg)

\* a logger handle: fields is the fieldLogger's map (Nil for the base logger); the
\* rest is history: the handle it was derived from, the map the caller passed to
\* that WithFields call and what it held, the receiver's field set then, and the
\* new field set then
Handle(ref, parent, argRef, arg, from, own) ==
    [fields |-> ref, parent |-> parent, arg |-> argRef, added |-> arg, from |-> from,
     own |-> own]

\* WithFields storing the argument's pairs into the receiver's own map and
\* handing that map to the new logger
WithFields_inPlace(lg, arg) ==
    /\ ~exited
    /\ Leveled
    /\ lg \in 1..Len(loggers)
    /\ Len(loggers) < lim.loggers
    /\ MayCall
    /\ ncalls' = ncalls + 1
    /\ IF lg = 1
       THEN /\ heap' = Append(heap, arg)
            /\ loggers' = Append(loggers, Handle(Len(heap) + 1, lg, Len(heap) + 1, arg, EmptyMap, arg))
       ELSE /\ heap' = [heap EXCEPT ![loggers[lg].fields] = copyInto(@, arg)]
            /\ loggers' = Append(loggers,
                   Handle(loggers[lg].fields, lg, Nil, arg, heap[loggers[lg].fields],
                          copyInto(heap[loggers[lg].fields], arg)))
    /\ UNCHANGED <<writeFunc, level, tsLayout, prefix, entChan, chanClosed, doneChan,
                   out, inWrite, pc, cont, exited, cpc, lastCall, enq, dropped,
                   closeMark, closeRet, lim, writes, finpc, asked>>

\* lg.WithFields(Fields{...}): the caller's map literal is allocated; the base
\* logger keeps that very map, a fieldLogger copies into a new one
WithFields(lg, arg) ==
    /\ ~exited
    /\ Leveled
    /\ lg \in 1..Len(loggers)
    /\ Len(loggers) < lim.loggers
    /\ MayCall
    /\ ncalls' = ncalls + 1
    /\ IF lg = 1
       THEN /\ heap' = Append(heap, arg)
            /\ loggers' = Append(loggers, Handle(Len(heap) + 1, lg, Len(heap) + 1, arg, EmptyMap, arg))
       ELSE /\ heap' = heap \o <<arg, newFields(heap[loggers[lg].fields], arg)>>
            /\ loggers' = Append(loggers,
                   Handle(Len(heap) + 2, lg, Len(heap) + 1, arg, heap[loggers[lg].fields],
                          newFields(heap[loggers[lg].fields], arg)))
    /\ UNCHANGED <<writeFunc, level, tsLayout, prefix, entChan, chanClosed, doneChan,
                   out, inWrite, pc, cont, exited, cpc, lastCall, enq, dropped,
                   closeMark, closeRet, lim, writes, finpc, asked>>

\* lg.WithField(key, value): WithFields(Fields{key: value})
WithField(lg, key, value) == WithFields(lg, Put(EmptyMap, key, value))

\* the caller stores into the map it passed to the WithFields call that made
\* logger l, after that call has returned: m[key] = value
SetArg(l, key, value) ==
    /\ ~exited
    /\ l \in 2..Len(loggers)
    /\ loggers[l].arg # Nil
    /\ MayCall
    /\ ncalls' = ncalls + 1
    /\ heap' = [heap EXCEPT ![loggers[l].arg] = Put(@, key, value)]
    /\ UNCHANGED <<writeFunc, level, tsLayout, prefix, entChan, chanClosed, doneChan,
                   out, inWrite, loggers, pc, cont, exited, cpc, lastCall, enq, dropped,
                   closeMark, closeRet, lim, writes, finpc, asked>>

----------------------------------------------------------------------------
(* Construction. *)

\* newLogger storing the requested level as it is
clampLevel_none(l) == l

\* newLogger's clamp of the requested level
clampLevel(l) == IF l < NoLevel THEN NoLevel ELSE IF l > DebugLevel THEN DebugLevel ELSE l

\* newLogger's / New's treatment of timeLayout
normLayout(t) == IF t = "" THEN defaultTimeLayout ELSE TrimSpace(t)

\* the state after NewText / NewJSON (wf "writeText" / "writeJSON") or New (wf
\* "output") has returned, with np producer goroutines about to use the logger
Construct(wf, reqLevel, timeLayout, pfx, np, calls, handles, reuse) ==
    /\ writeFunc = wf
    /\ level = IF wf = "output" THEN NoLevel ELSE clampLevel(reqLevel)
    /\ tsLayout = normLayout(timeLayout)
    /\ prefix = pfx
    /\ entChan = <<>>
    /\ chanClosed = FALSE
    /\ doneChan = FALSE
    /\ out = <<>>
    /\ inWrite = <<>>
    /\ heap = <<>>
    /\ loggers = <<Handle(Nil, 0, Nil, EmptyMap, EmptyMap, EmptyMap)>>
    /\ pc = [p \in 1..np |-> "ready"]
    /\ cont = [p \in 1..np |-> "return"]
    /\ exited = FALSE
    /\ cpc = "recv"
    /\ ncalls = 0
    /\ lastCall = [n |-> 0, by |-> 0, lg |-> 0, sev |-> 0, res |-> "none", all |-> {}]
    /\ enq = <<>>
    /\ dropped = <<>>
    /\ closeMark = [by |-> 0, n |-> 0, occ |-> 0, via |-> ""]
    /\ closeRet = {}
    /\ lim = [calls |-> calls, loggers |-> handles, reuse |-> reuse]
    /\ writes = <<>>
    /\ finpc = IF wf = "output" THEN "none" ELSE "armed"
    /\ asked = reqLevel

\* a.writeFunc(ent) applied to a given entry, up to its call of Write: the
\* encoder as a function of the entry, its field set and the configuration
Encode(ent) ==
    /\ ~exited
    /\ Leveled
    /\ cpc = "recv"
    /\ IF writeFunc = "writeText"
       THEN /\ \E order \in RangeOrders(FieldsOf(ent)) :
                   WriteCall(consumer, writeText(ent, order))
            /\ cpc' = "write"
            /\ UNCHANGED <<heap, dropped>>
       ELSE /\ heap' = heapAfterJSON(ent)
            /\ IF marshalFails(jsonFields(ent))
               THEN /\ dropped' = Append(dropped, ent.ts)
                    /\ UNCHANGED <<inWrite, cpc>>
               ELSE /\ WriteCall(consumer, writeJSON(ent))
                    /\ cpc' = "write"
                    /\ UNCHANGED dropped
    /\ UNCHANGED <<writeFunc, level, tsLayout, prefix, entChan, chanClosed, doneChan,
                   out, loggers, pc, cont, exited, ncalls, lastCall, enq, closeMark,
                   closeRet, lim, writes, finpc, asked>>

\* closeLogger, the finalizer set by runtime.SetFinalizer(a, closeLogger): the
\* garbage collector may run it once nothing refers to the logger any more, that
\* is once the consumer goroutine, whose run holds it, has returned and the
\* application, back from its calls, has dropped it.  close(a.entChan) on a
\* closed channel is a run-time panic, in the finalizer goroutine
Finalize ==
    /\ ~exited
    /\ finpc = "armed"
    /\ cpc = "done"
    /\ \A p \in Producers : pc[p] = "ready"
    /\ IF chanClosed
       THEN finpc' = "closeOfClosed" /\ UNCHANGED chanClosed
       ELSE finpc' = "closed" /\ chanClosed' = TRUE
    /\ UNCHANGED <<writeFunc, level, tsLayout, prefix, entChan, doneChan, out, inWrite,
                   heap, loggers, pc, cont, exited, cpc, ncalls, lastCall, enq, dropped,
                   closeMark, closeRet, lim, writes, asked>>

\* the consumer's steps
Consumer == run \/ WriteReturn \/ runExit

----------------------------------------------------------------------------
(* The engine specification: concurrent producers, either engine. *)

Init ==
    \E wf \in {"writeText", "writeJSON", "output"} :
        Construct(wf, InfoLevel, "", "", NumProducers, MaxCalls, MaxCalls, TRUE)

Next ==
    \/ \E p \in Producers : \E lg \in 1..Len(loggers) : PrintCall(p, lg, "")
    \/ \E p \in Producers : Panic(p, 1, "")
    \/ \E p \in Producers : Close(p)
    \/ \E p \in Producers : CloseDone(p)
    \/ WithField(1, "foo", ChanVal)
    \/ Consumer

Spec == Init /\ [][Next]_vars

----------------------------------------------------------------------------
(* The simple Logger alone: concurrent producers, and one producer that     *)
(* makes enough calls to fill the channel before it calls Close.            *)

InitSimple ==
    \/ Construct("output", NoLevel, "", "", NumProducers, MaxCalls, 1, TRUE)
    \/ Construct("output", NoLevel, "", "", 1, FullCalls, 1, FALSE)

NextSimple ==
    \/ \E p \in Producers : PrintCall(p, 1, "")
    \/ \E p \in Producers : Panic(p, 1, "")
    \/ \E p \in Producers : Close(p)
    \/ \E p \in Producers : CloseDone(p)
    \/ run
    \/ WriteReturn

SpecSimple == InitSimple /\ [][NextSimple]_vars

----------------------------------------------------------------------------
(* The level specification: one producer, every threshold NewText / NewJSON  *)
(* can be asked for, every severity, the base logger and one scoped logger.  *)

\* the levels asked of newLogger, the out-of-range ones included
RequestedLevels == (NoLevel - 1)..(DebugLevel + 1)

InitLevel ==
    \E wf \in {"writeText", "writeJSON"} : \E req \in RequestedLevels :
        Construct(wf, req, "", "", 1, MaxLevelCalls, MaxLevelCalls, TRUE)

NextLevel ==
    \/ \E lg \in 1..Len(loggers) : \E mode \in Modes : PrintCall(1, lg, mode)
    \/ \E lg \in 1..Len(loggers) : \E lvl \in ErrorLevel..DebugLevel : Log(1, lg, lvl, "")
    \/ \E lg \in 1..Len(loggers) : Panic(1, lg, "")
    \/ \E lg \in 1..Len(loggers) : Fatal(1, lg, "")
    \/ Close(1)
    \/ CloseDone(1)
    \/ WithField(1, "foo", BarVal)
    \/ Consumer

SpecLevel == InitLevel /\ [][NextLevel]_vars

----------------------------------------------------------------------------
(* The field specification: one producer derives scoped loggers from the    *)
(* base logger and from one another and logs through any of them.           *)

FieldKeys == {"foo", "baz"}

\* the values a caller gives a key: foo has two, so that a child can shadow it
FieldValues(k) == IF k = "foo" THEN {StrVal("bar"), StrVal("quz")} ELSE {StrVal("quz")}

\* the map literals a caller passes to WithFields; single pairs go through WithField
FieldArgs == {Put(Put(EmptyMap, "foo", v), "baz", StrVal("quz")) : v \in FieldValues("foo")}

InitFields ==
    \E wf \in {"writeText", "writeJSON"} :
        Construct(wf, InfoLevel, "", "", 1, MaxFieldCalls, MaxLoggers, TRUE)

NextFields ==
    \/ \E lg \in 1..Len(loggers) : \E arg \in FieldArgs : WithFields(lg, arg)
    \/ \E lg \in 1..Len(loggers) : \E k \in FieldKeys : \E v \in FieldValues(k) :
           WithField(lg, k, v)
    \/ \E lg \in 1..Len(loggers) : Log(1, lg, InfoLevel, "")
    \/ Close(1)
    \/ CloseDone(1)
    \/ Consumer

SpecFields == InitFields /\ [][NextFields]_vars

----------------------------------------------------------------------------
(* The aliasing specification: the caller keeps the maps it passes to       *)
(* WithFields and stores into them after the call has returned.             *)

InitAlias ==
    \E wf \in {"writeText", "writeJSON"} :
        Construct(wf, InfoLevel, "", "", 1, MaxAliasCalls, MaxAliasCalls, TRUE)

NextAlias ==
    \/ \E lg \in 1..Len(loggers) : \E arg \in FieldArgs : WithFields(lg, arg)
    \/ \E l \in 2..Len(loggers) : \E k \in FieldKeys : \E v \in FieldValues(k) :
           SetArg(l, k, v)
    \/ \E lg \in 1..Len(loggers) : Log(1, lg, InfoLevel, "")
    \/ Close(1)
    \/ CloseDone(1)
    \/ Consumer

SpecAlias == InitAlias /\ [][NextAlias]_vars

----------------------------------------------------------------------------
(* The reserved-key specification: the JSON encoder, and callers whose      *)
(* fields use the keys the encoder computes.                                *)

ReservedKeys == {timeField, levelField, msgField}

\* a layout of spaces is trimmed to the empty layout: no time key is computed
InitReserved ==
    \E req \in {NoLevel, InfoLevel} : \E layout \in {"", " "} :
        Construct("writeJSON", req, layout, "", 1, MaxReservedCalls, MaxReservedCalls,
                  TRUE)

NextReserved ==
    \/ \E lg \in 1..Len(loggers) : \E k \in ReservedKeys :
           WithField(lg, k, StrVal("custom"))
    \/ \E lg \in 1..Len(loggers) : PrintCall(1, lg, "")
    \/ \E lg \in 1..Len(loggers) : Log(1, lg, InfoLevel, "f")
    \/ Close(1)
    \/ CloseDone(1)
    \/ Consumer

SpecReserved == InitReserved /\ [][NextReserved]_vars

----------------------------------------------------------------------------
(* The shutdown specification: a producer logs and calls Panic or Fatal,    *)
(* through the base logger or a scoped one, under every threshold; a scoped *)
(* logger may hold a value json.Marshal rejects.                            *)

InitShutdown ==
    \E wf \in {"writeText", "writeJSON"} : \E req \in NoLevel..DebugLevel :
        Construct(wf, req, "", "", 1, MaxShutdownCalls, MaxShutdownCalls, TRUE)

NextShutdown ==
    \/ \E v \in {StrVal("bar"), ChanVal} : WithField(1, "foo", v)
    \/ \E lg \in 1..Len(loggers) : PrintCall(1, lg, "")
    \/ \E lg \in 1..Len(loggers) : \E mode \in Modes : Panic(1, lg, mode)
    \/ \E lg \in 1..Len(loggers) : \E mode \in Modes : Fatal(1, lg, mode)
    \/ Close(1)
    \/ CloseDone(1)
    \/ Consumer

SpecShutdown == InitShutdown /\ [][NextShutdown]_vars

----------------------------------------------------------------------------
(* The full-queue specification: one producer of the leveled logger or of   *)
(* the simple Logger sends more entries than the channel holds; under the   *)
(* threshold Info it makes its Debug calls when the channel is full.        *)

InitFull ==
    \E wf \in {"writeText", "output"} :
        Construct(wf, InfoLevel, "", "", 1, FullCalls, 1, FALSE)

NextFull ==
    \/ PrintCall(1, 1, "")
    \/ Len(entChan) = ChanCap /\ Log(1, 1, DebugLevel, "")
    \/ Close(1)
    \/ CloseDone(1)
    \/ Consumer

SpecFull == InitFull /\ [][NextFull]_vars

----------------------------------------------------------------------------
(* The failing-sink specification: any Write call may return an error.      *)

InitSink ==
    \E wf \in {"writeText", "writeJSON", "output"} :
        Construct(wf, InfoLevel, "", "", 1, MaxSinkCalls, 1, FALSE)

NextSink ==
    \/ \E p \in Producers : \E mode \in Modes : PrintCall(p, 1, mode)
    \/ \E p \in Producers : Close(p)
    \/ \E p \in Producers : CloseDone(p)
    \/ Consumer
    \/ WriteError

SpecSink == InitSink /\ [][NextSink]_vars

----------------------------------------------------------------------------
(* The delivery specification: a running engine that is never closed, with  *)
(* the consumer goroutine scheduled and every Write call returning.         *)

InitLive ==
    \E wf \in {"writeText", "writeJSON", "output"} :
        Construct(wf, InfoLevel, "", "", NumProducers, MaxLiveCalls, 2, FALSE)

NextLive ==
    \/ \E p \in Producers : \E lg \in 1..Len(loggers) : PrintCall(p, lg, "")
    \/ WithField(1, "foo", ChanVal)
    \/ run
    \/ WriteReturn

\* the Go scheduler runs the consumer goroutine whenever it can receive, and a
\* Write call that was entered returns
FairLive == WF_vars(run) /\ WF_vars(WriteReturn)

SpecLive == InitLive /\ [][NextLive]_vars /\ FairLive

----------------------------------------------------------------------------
(* The closing specification: one producer sends up to more entries than    *)
(* the channel holds and then calls Close; the goroutines are scheduled and *)
(* every Write call returns.                                                *)

InitClose ==
    \E wf \in {"writeText", "writeJSON", "output"} :
        Construct(wf, InfoLevel, "", "", 1, FullCalls, 1, FALSE)

NextClose ==
    \/ ncalls + 1 < lim.calls /\ PrintCall(1, 1, "")
    \/ Close(1)
    \/ CloseDone(1)
    \/ run
    \/ WriteReturn
    \/ runExit

\* the application does call Close, the calling goroutine and the consumer
\* goroutine run whenever they can, and a Write call that was entered returns
FairClose ==
    /\ WF_vars(Close(1))
    /\ WF_vars(CloseDone(1))
    /\ WF_vars(run)
    /\ WF_vars(WriteReturn)
    /\ WF_vars(runExit)

SpecClose == InitClose /\ [][NextClose]_vars /\ FairClose

----------------------------------------------------------------------------
(* The simple Logger used after Close: one producer calls Close once and    *)
(* goes on printing, more often than the channel has slots.                 *)

InitPrintAfter == Construct("output", NoLevel, "", "", 1, FullCalls, 1, TRUE)

NextPrintAfter ==
    \/ PrintCall(1, 1, "")
    \/ closeMark.by = 0 /\ Close(1)
    \/ CloseDone(1)
    \/ run
    \/ WriteReturn

SpecPrintAfter == InitPrintAfter /\ [][NextPrintAfter]_vars

----------------------------------------------------------------------------
(* The double-close specification: the leveled logger, closed by Close, by  *)
(* Panic or by Fatal, and closed again, by another call or by a deferred    *)
(* Close that runs while the panic unwinds.                                 *)

InitDouble ==
    \E wf \in {"writeText", "writeJSON"} : \E req \in {NoLevel, PanicLevel, InfoLevel} :
        Construct(wf, req, "", "", 1, MaxDoubleCalls, 2, TRUE)

NextDouble ==
    \/ WithField(1, "foo", BarVal)
    \/ \E lg \in 1..Len(loggers) : PrintCall(1, lg, "")
    \/ \E lg \in 1..Len(loggers) : Panic(1, lg, "")
    \/ \E lg \in 1..Len(loggers) : Fatal(1, lg, "")
    \/ Close(1)
    \/ CloseDone(1)
    \/ DeferredClose(1)
    \/ Consumer

SpecDouble == InitDouble /\ [][NextDouble]_vars

----------------------------------------------------------------------------
(* The encoder specification: writeText and writeJSON as functions.  Scoped *)
(* loggers are made, and then the encoder is applied, again and again, to   *)
(* the entry of one log call through one of the handles.                    *)

\* the entry of the call of severity sev through handle lg: the same call makes
\* the same entry, its time included
EntryId(lg, sev) == lg * (DebugLevel + 1) + sev

EncodedEntry(lg, sev) == Entry(EntryId(lg, sev), sev, "", loggers[lg].fields, 1, lg)

InitEncode ==
    \E wf \in {"writeText", "writeJSON"} : \E req \in {NoLevel, InfoLevel} :
        \E layout \in {"", " "} :
            Construct(wf, req, layout, "", 1, MaxEncodeCalls, MaxEncodeCalls + 1, FALSE)

NextEncode ==
    \/ \E lg \in 1..Len(loggers) : \E arg \in FieldArgs :
           writes = <<>> /\ inWrite = <<>> /\ WithFields(lg, arg)
    \/ \E lg \in 1..Len(loggers) :
           writes = <<>> /\ inWrite = <<>> /\ WithField(lg, "foo", StrVal("bar"))
    \/ \E lg \in 1..Len(loggers) : \E sev \in {NoLevel, InfoLevel} :
           Len(out) < MaxEncodings /\ Encode(EncodedEntry(lg, sev))
    \/ WriteReturn

SpecEncode == InitEncode /\ [][NextEncode]_vars

----------------------------------------------------------------------------
(* The finalizer specification: the leveled logger, an application that     *)
(* shuts it down at most once, by Close or by Panic, and the garbage        *)
(* collector, which may run closeLogger on a logger nothing refers to; the  *)
(* unrecovered panic of a finalizer ends the process.                       *)

InitFinal ==
    \E wf \in {"writeText", "writeJSON"} : \E req \in {NoLevel, PanicLevel, InfoLevel} :
        Construct(wf, req, "", "", 1, MaxFinalCalls, 1, TRUE)

NextFinal ==
    \/ \E mode \in Modes : finpc = "armed" /\ PrintCall(1, 1, mode)
    \/ finpc = "armed" /\ closeMark.by = 0 /\ Panic(1, 1, "")
    \/ finpc = "armed" /\ (closeMark.by = 0 \/ pc[1] = "Close") /\ Close(1)
    \/ finpc = "armed" /\ CloseDone(1)
    \/ Consumer
    \/ Finalize

SpecFinal == InitFinal /\ [][NextFinal]_vars

----------------------------------------------------------------------------
(* The simple Logger closed again and again: one producer prints, calls     *)
(* Close, and goes on calling Close, more often than the channel has slots. *)

InitCloseAfter == Construct("output", NoLevel, "", "", 1, FullCalls, 1, TRUE)

NextCloseAfter ==
    \/ closeMark.by = 0 /\ PrintCall(1, 1, "")
    \/ Close(1)
    \/ CloseDone(1)
    \/ run
    \/ WriteReturn

SpecCloseAfter == InitCloseAfter /\ [][NextCloseAfter]_vars

----------------------------------------------------------------------------
(* Vocabulary of the properties. *)

\* how many returned Write calls carried entry id
TimesWritten(id) == Cardinality({i \in 1..Len(out) : out[i].ent = id})

\* how many Write calls, returned or in progress, were made for entry id
WriteCallsFor(id) ==
    TimesWritten(id) + Cardinality({i \in 1..Len(inWrite) : inWrite[i].bytes.ent = id})

\* the entry is still buffered in the channel
Pending(ent) == \E i \in 1..Len(entChan) : entChan[i] = ent

\* the entry's fields hold a value json.Marshal rejects, and the encoder is JSON
Unmarshalable(ent) ==
    /\ writeFunc = "writeJSON"
    /\ \E k \in DOMAIN FieldsOf(ent) : FieldsOf(ent)[k].kind = "chan"

\* the Close that shut the running engine down has returned
CloseReturned == closeMark.by \in closeRet

\* the entries sent before that Close was invoked
BeforeClose == {enq[i] : i \in 1..closeMark.n}

\* the position of a sent entry in the order of the sends
EnqIndex(id) == CHOOSE i \in 1..Len(enq) : enq[i].ts = id

\* the bytes are the whole line of the entry: its message, and the final newline
CompleteLine(bytes, ent) ==
    /\ bytes.nl
    /\ bytes.ent = ent.ts
    /\ IF writeFunc = "writeJSON"
       THEN msgField \in DOMAIN bytes.obj /\ bytes.obj[msgField].n = ent.args
       ELSE Cardinality({i \in 1..Len(bytes.text) :
                bytes.text[i].t = "msg" /\ bytes.text[i].n = ent.args}) = 1

----------------------------------------------------------------------------
(* C1: leveled engine, Close flushes. *)

----------------------------------------------------------------------------
(* C2: simple Logger, the nil sentinel. *)

\* C2: in the simple Logger the nil entry of the Close that stops the running
\* engine is queued behind every entry sent before, and once that Close has
\* returned every one of those entries has been written to the sink exactly once.
C2_SentinelFlushes ==
    (writeFunc = "output" /\ closeMark.by # 0) =>
        /\ \A i, j \in 1..Len(entChan) :
               (i < j /\ entChan[i] = nilEntry) => entChan[j] \notin BeforeClose
        /\ CloseReturned => \A e \in BeforeClose : TimesWritten(e.ts) = 1

\* Close found the channel with a single free slot, after more entries than the
\* channel holds had been sent, and has returned
C2_Witness ==
    /\ writeFunc = "output"
    /\ CloseReturned
    /\ closeMark.occ = ChanCap - 1
    /\ closeMark.n > ChanCap
    /\ \A e \in BeforeClose : TimesWritten(e.ts) = 1

----------------------------------------------------------------------------
(* C3: order of the writes. *)

\* C3: the lines in the sink are in the order in which their entries' sends
\* completed, none twice and none overtaking an entry sent earlier (an earlier
\* entry is missing only if the encoder dropped it); so each producer's entries
\* are written in the order that producer issued them.
C3_WritesInEnqueueOrder ==
    /\ \A i \in 1..Len(out) : \E k \in 1..Len(enq) : enq[k].ts = out[i].ent
    /\ \A i, j \in 1..Len(out) :
           i < j => EnqIndex(out[i].ent) < EnqIndex(out[j].ent)
    /\ \A i, j \in 1..Len(enq) :
           (i < j /\ WriteCallsFor(enq[j].ts) > 0)
               => (WriteCallsFor(enq[i].ts) = 1 \/ Unmarshalable(enq[i]))
    /\ \A i, j \in 1..Len(out) :
           (i < j /\ enq[EnqIndex(out[i].ent)].by = enq[EnqIndex(out[j].ent)].by)
               => out[i].ent < out[j].ent

\* three lines written, the producers' entries interleaved
C3_Witness ==
    /\ Len(out) >= 3
    /\ enq[EnqIndex(out[1].ent)].by # enq[EnqIndex(out[2].ent)].by
    /\ enq[EnqIndex(out[1].ent)].by = enq[EnqIndex(out[3].ent)].by

----------------------------------------------------------------------------
(* C4: serialized access to the Writer. *)

\* C4: at most one Write call on the sink is in progress, and it was issued by
\* the consumer goroutine.
C4_SerializedWrites ==
    /\ Len(inWrite) <= 1
    /\ \A i \in 1..Len(inWrite) : inWrite[i].by = consumer

\* a Write is in progress while entries of two producers wait in the channel
C4_Witness ==
    /\ Len(inWrite) = 1
    /\ \E i, j \in 1..Len(entChan) : entChan[i].by # entChan[j].by
                                      /\ entChan[i].by # 0 /\ entChan[j].by # 0

----------------------------------------------------------------------------
(* C5: one Write call per entry. *)

----------------------------------------------------------------------------
(* C6, C7, C8: the level policy. *)

\* the policy as the specification words it: a call of severity S is admitted
\* under threshold T when T is NoLevel, or S is NoLevel, or S ranks at or above
\* T in Panic > Fatal > Error > Warn > Info > Debug
Ranks == <<PanicLevel, FatalLevel, ErrorLevel, WarnLevel, InfoLevel, DebugLevel>>

RankOf(l) == CHOOSE i \in 1..Len(Ranks) : Ranks[i] = l

Admitted(T, S) == T = NoLevel \/ S = NoLevel \/ RankOf(S) <= RankOf(T)

\* the step is a log call, of the severity lastCall'.sev
LogCallStep == lastCall'.n # lastCall.n

\* the step puts exactly one entry, of the call's severity, at the back of the queue
EnqueuesOne ==
    /\ Len(enq') = Len(enq) + 1
    /\ enq'[Len(enq')].level = lastCall'.sev
    /\ entChan' = Append(entChan, enq'[Len(enq')])

\* the entry a written line was made from
EntryOf(id) == enq[EnqIndex(id)]

\* C6: on a running leveled logger with threshold T, a log call of severity S
\* enqueues an entry if and only if T is NoLevel, or S is NoLevel (Print,
\* Println, Printf), or S is at or above T in severity.
C6_EnqueuedIffAdmitted ==
    [][(LogCallStep /\ ~chanClosed) => (EnqueuesOne <=> Admitted(level, lastCall'.sev))]_vars

\* under threshold Warn an Info call was rejected, a Warn call and a Print call
\* were enqueued
C6_Witness ==
    /\ level = WarnLevel
    /\ lastCall.res = "filtered"
    /\ lastCall.sev = InfoLevel
    /\ \E i, j \in 1..Len(enq) : enq[i].level = WarnLevel /\ enq[j].level = NoLevel

\* what holds of logger.log, logln and logf themselves: the step of a call the
\* policy rejects leaves the queue, the consumer, the sink and every field map
\* as they were, and with threshold Warn, as long as the only log calls are
\* Debug and Info calls, nothing is queued and the sink stays empty
RejectedLogChangesNothing ==
    /\ [][(LogCallStep /\ ~Admitted(level, lastCall'.sev)) =>
             UNCHANGED <<entChan, chanClosed, doneChan, out, inWrite, heap, loggers,
                         cpc, enq, dropped>>]_vars
    /\ [](level = WarnLevel /\ lastCall.all \subseteq {InfoLevel, DebugLevel} =>
             enq = <<>> /\ entChan = <<>> /\ inWrite = <<>> /\ out = <<>>)

\* every log call made so far was one the level policy rejects
OnlyRejectedCalls ==
    /\ lastCall.n > 0
    /\ \A s \in lastCall.all : ~Admitted(level, s)

\* the engine is as newLogger left it: running, nothing queued, the consumer at
\* its receive, nothing written
EngineUntouched ==
    /\ entChan = <<>>
    /\ ~chanClosed
    /\ cpc = "recv"
    /\ ~doneChan
    /\ inWrite = <<>>
    /\ out = <<>>
    /\ ~exited

\* C7: leveled calls the level policy rejects leave the engine unchanged: as
\* long as the application has made only rejected calls and has not called
\* Close, the queue, the consumer and the sink are as they were before the calls.
C7_RejectedCallsLeaveEngineUnchanged ==
    (Leveled /\ OnlyRejectedCalls /\ closeMark.via # "return") => EngineUntouched

\* the line shows the level of its entry: in Text the label of that level right
\* before the message, in JSON the level key with the name of that level
ShowsLevel(line, ent) ==
    IF writeFunc = "writeJSON"
    THEN /\ levelField \in DOMAIN line.obj
         /\ line.obj[levelField] = StrVal(levelNames[ent.level + 1])
    ELSE \E i \in 1..(Len(line.text) - 1) :
            /\ line.text[i] = Tok("label", 0, "", levelNamesText[ent.level + 1])
            /\ line.text[i + 1].t = "msg"

\* the line shows no level: in Text a single space stands before the message and
\* there is no label, in JSON there is no level key
ShowsNoLevel(line) ==
    IF writeFunc = "writeJSON"
    THEN levelField \notin DOMAIN line.obj
    ELSE /\ \A i \in 1..Len(line.text) : line.text[i].t # "label"
         /\ \E i \in 1..(Len(line.text) - 1) :
                line.text[i] = Tok("sp", 0, "", " ") /\ line.text[i + 1].t = "msg"

\* C8: a written line carries the level of its entry (the label right before
\* the message in Text, the level key in JSON) if and only if the threshold is
\* not NoLevel and the entry came from a leveled call; under threshold NoLevel
\* every leveled call is admitted and its line carries no level.
C8_LevelShownIffLeveled ==
    Leveled =>
        /\ \A i \in 1..Len(out) :
               IF level # NoLevel /\ EntryOf(out[i].ent).level # NoLevel
               THEN ShowsLevel(out[i], EntryOf(out[i].ent))
               ELSE ShowsNoLevel(out[i])
        /\ (level = NoLevel /\ lastCall.n > 0) => lastCall.res # "filtered"

\* the same for the Text encoder alone
C8_TextLevelShownIffLeveled == writeFunc = "writeText" => C8_LevelShownIffLeveled

----------------------------------------------------------------------------
(* C9, C10: scoped loggers. *)

\* the keys the JSON encoder stores on its own account
EncoderKeys ==
    {timeField, levelField, msgField, extTimeField, extLevelField, extMsgField}

\* the fields a written line shows under the caller's keys, as a map
ShownFields(line) ==
    IF writeFunc = "writeJSON"
    THEN [k \in DOMAIN line.obj \ EncoderKeys |-> line.obj[k]]
    ELSE [k \in {line.text[i].k : i \in {j \in 1..Len(line.text) : line.text[j].t = "field"}}
             |-> StrVal((CHOOSE t \in {line.text[i] : i \in 1..Len(line.text)} :
                            t.t = "field" /\ t.k = k).v)]

\* a map restricted to the caller's keys
CallerFields(m) == [k \in DOMAIN m \ EncoderKeys |-> m[k]]

\* the step derives a logger
DeriveStep == Len(loggers') = Len(loggers) + 1

PairsOf(m) == {<<k, m[k]>> : k \in DOMAIN m}

Merge(A, B) == PairsOf(B) \cup {kv \in PairsOf(A) : kv[1] \notin DOMAIN B}

----------------------------------------------------------------------------
(* C11, C12: ownership of the field maps. *)

\* the fields of logger l are as they were when it was derived, under the
\* caller's keys
KeepsOwnFields(l) ==
    CallerFields(heap[loggers[l].fields]) = CallerFields(loggers[l].own)

\* the map of logger l is neither the map the caller passed nor the receiver's
FreshMap(l) ==
    /\ loggers[l].fields # loggers[l].arg
    /\ loggers[l].fields # loggers[loggers[l].parent].fields

\* C11: the logger WithFields returns owns a fresh map, distinct from the
\* caller's argument map and from the receiver's map, so what the caller
\* stores into the argument map after WithFields has returned never changes
\* the fields of that logger, of the entries queued through it or of the lines
\* written for them; for WithFields on the base logger and on a scoped logger.
C11_WithFieldsFreshMap ==
    /\ \A l \in 2..Len(loggers) : KeepsOwnFields(l)
    /\ \A i \in 1..Len(enq) :
           enq[i].lg > 1 => CallerFields(FieldsOf(enq[i])) =
                                CallerFields(loggers[enq[i].lg].own)
    /\ \A i \in 1..Len(out) :
           ShownFields(out[i]) = CallerFields(loggers[EntryOf(out[i].ent).lg].own)

\* the same for the loggers derived from a scoped logger alone
C11_ScopedReceiverFreshMap ==
    /\ \A l \in 2..Len(loggers) : loggers[l].parent > 1 => FreshMap(l) /\ KeepsOwnFields(l)
    /\ \A i \in 1..Len(out) :
           loggers[EntryOf(out[i].ent).lg].parent > 1 =>
               ShownFields(out[i]) = CallerFields(loggers[EntryOf(out[i].ent).lg].own)

\* the step stores into a field map that exists already: one a scoped logger
\* owns or an entry refers to
WritesFieldMap == \E m \in 1..Len(heap) : heap'[m] # heap[m]

\* C12: field maps are never mutated after construction: no step of any task,
\* producer or consumer, under the Text or the JSON encoder, stores into a field
\* map that a scoped logger owns or that an entry carries; the consumer only
\* reads the entries it receives.
C12_FieldMapsNeverWritten == [][~WritesFieldMap]_vars

\* the same for the Text encoder, and for every producer step under either
C12_OnlyJSONConsumerWrites ==
    [][WritesFieldMap => (writeFunc = "writeJSON" /\ cpc = "recv" /\ entChan' # entChan)]_vars

----------------------------------------------------------------------------
(* C13: reserved keys of the JSON encoder. *)

\* the alias under which the encoder keeps a caller's value of a reserved key
ExtOf(k) ==
    IF k = timeField THEN extTimeField
    ELSE IF k = levelField THEN extLevelField ELSE extMsgField

\* the encoder computes reserved key k for the entry
Computes(k, ent) ==
    IF k = timeField THEN tsLayout # ""
    ELSE IF k = levelField THEN level # NoLevel /\ ent.level # NoLevel
    ELSE TRUE

\* the value the encoder computes for reserved key k of the entry
Computed(k, ent) ==
    IF k = timeField THEN FormatTime(ent.ts, tsLayout)
    ELSE IF k = levelField THEN StrVal(levelNames[ent.level + 1])
    ELSE Rendered(IF ent.format # "" THEN "Sprintf" ELSE "Sprint", ent.args)

\* the fields the callers supplied to logger l: the arguments of the WithFields
\* calls along its derivation, later ones shadowing earlier ones
RECURSIVE Supplied(_)
Supplied(l) ==
    IF l = 1 THEN EmptyMap
    ELSE [k \in DOMAIN Supplied(loggers[l].parent) \cup DOMAIN loggers[l].added |->
             IF k \in DOMAIN loggers[l].added THEN loggers[l].added[k]
             ELSE Supplied(loggers[l].parent)[k]]

\* the object has the computed value under k and the caller's value under fields.k
AliasesReserved(obj, ent, k) ==
    /\ k \in DOMAIN obj
    /\ obj[k] = Computed(k, ent)
    /\ ExtOf(k) \in DOMAIN obj
    /\ obj[ExtOf(k)] = Supplied(ent.lg)[k]

\* C13: for each reserved key k of time, level, msg that the JSON encoder
\* computes for an entry and that the entry's caller-supplied fields hold with
\* value v, the written object has k = the computed value and fields.k = v.
C13_ReservedKeyAliased ==
    \A i \in 1..Len(out) :
        LET ent == EntryOf(out[i].ent) IN
        \A k \in ReservedKeys \cap DOMAIN Supplied(ent.lg) :
            Computes(k, ent) => AliasesReserved(out[i].obj, ent, k)

\* the same for an entry whose map still holds what the callers supplied when
\* the encoder receives it: what writeJSON does with a map it has not written yet
C13_UnwrittenMapAliased ==
    \A i \in 1..Len(entChan) :
        LET ent == entChan[i] IN
        (ent.lg > 1 /\ FieldsOf(ent) = Supplied(ent.lg)) =>
            \A k \in ReservedKeys \cap DOMAIN Supplied(ent.lg) :
                Computes(k, ent) => AliasesReserved(jsonFields(ent), ent, k)

----------------------------------------------------------------------------
(* C14, C15: Panic and Fatal. *)

\* producer p is in a Panic call whose Close has seen doneChan closed, or the
\* panic of that call has been raised
PanicRaisedOrDue(p) ==
    \/ pc[p] = "panicked"
    \/ pc[p] = "wait" /\ cont[p] = "panic" /\ doneChan

\* the positions in the order of the sends of the entries of severity lvl that
\* producer p has sent
SentAt(p, lvl) == {i \in 1..Len(enq) : enq[i].by = p /\ enq[i].level = lvl}

\* C14 as stated: when the panic of a Panic, Panicln or Panicf call is raised
\* (base or scoped logger, any threshold), the Panic-severity entry of the call
\* and every entry sent before it have been written to the sink and the
\* consumer has exited.
C14_PanicAfterFlush ==
    \A p \in Producers :
        PanicRaisedOrDue(p) =>
            /\ cpc = "done"
            /\ \E i \in SentAt(p, PanicLevel) :
                   \A j \in 1..i : TimesWritten(enq[j].ts) = 1

\* C14, amended: when the panic of a Panic, Panicln or Panicf call is raised, the
\* consumer has exited, and the Panic-severity entry of the call and every entry
\* sent before it have been written to the sink exactly once, except the entries
\* whose fields json.Marshal cannot encode, which are never written.
C14_PanicAfterFlushOfEncodable ==
    \A p \in Producers :
        PanicRaisedOrDue(p) =>
            /\ cpc = "done"
            /\ inWrite = <<>>
            /\ \E i \in SentAt(p, PanicLevel) :
                   \A j \in 1..i :
                       TimesWritten(enq[j].ts) = IF Unmarshalable(enq[j]) THEN 0 ELSE 1

\* a Panicf call through a scoped logger has raised its panic, after an entry
\* had been sent through the base logger, and both entries are in the sink
C14_Witness ==
    \E p \in Producers :
        /\ pc[p] = "panicked"
        /\ \E i \in SentAt(p, PanicLevel) :
               /\ enq[i].lg > 1
               /\ enq[i].format # ""
               /\ TimesWritten(enq[i].ts) = 1
               /\ \E j \in 1..(i - 1) : enq[j].lg = 1 /\ TimesWritten(enq[j].ts) = 1

\* C15: for every threshold, when a Fatal, Fatalln or Fatalf call terminates the
\* process, a Fatal-severity entry of that call has been written to the sink.
C15_FatalWrittenBeforeExit ==
    \A p \in Producers :
        pc[p] = "exit" => \E i \in SentAt(p, FatalLevel) : TimesWritten(enq[i].ts) = 1

\* the same when the threshold is not PanicLevel and the entry's fields can be
\* encoded
C15_FatalWrittenUnlessFiltered ==
    \A p \in Producers :
        (pc[p] = "exit" /\ level # PanicLevel) =>
            \E i \in SentAt(p, FatalLevel) :
                TimesWritten(enq[i].ts) = IF Unmarshalable(enq[i]) THEN 0 ELSE 1

----------------------------------------------------------------------------
(* C16: backpressure. *)

\* producer p is about to make a call on the running engine
CallerReady(p) ==
    /\ ~exited
    /\ pc[p] = "ready"
    /\ MayCall
    /\ ~chanClosed
    /\ closeMark.by = 0

\* the channel holds its full capacity of pending entries
QueueFull == Len(entChan) = ChanCap

\* the step is a call that sent its entry, and the caller is back in the
\* application with the consumer where it was
CompletesAlone ==
    (LogCallStep /\ lastCall'.res = "enqueued") =>
        /\ pc'[lastCall'.by] = "ready"
        /\ UNCHANGED <<cpc, out, inWrite, doneChan>>

----------------------------------------------------------------------------
(* C17: a failing sink. *)

\* the step is a Write call returning an error
WriteFailsStep == Len(writes') = Len(writes) + 1 /\ ~writes'[Len(writes')].ok

\* how many Write calls, returned with or without error, were made for entry id
WriteAttempts(id) == Cardinality({i \in 1..Len(writes) : writes[i].ent = id})

\* C17: a failed sink write is swallowed: the step in which Write returns an
\* error changes nothing a producer can observe and leaves the consumer in its
\* loop; no producer is ever in a panic or exited; the entries are passed to
\* Write in the order of the sends, failed writes included; and once Close has
\* returned every entry sent before it was passed to Write exactly once.
C17_WriteErrorSwallowed ==
    /\ [][WriteFailsStep =>
             /\ cpc' = "recv"
             /\ UNCHANGED <<pc, cont, exited, entChan, chanClosed, doneChan, out, enq,
                            lastCall, closeRet>>]_vars
    /\ [](\A p \in Producers : pc[p] \in {"ready", "wait"})
    /\ [](\A i, j \in 1..Len(writes) :
             i < j => EnqIndex(writes[i].ent) < EnqIndex(writes[j].ent))
    /\ [](CloseReturned => \A e \in BeforeClose : WriteAttempts(e.ts) = 1)

\* a Write returned an error, the Write for a later entry succeeded, and Close
\* has returned
C17_Witness ==
    /\ CloseReturned
    /\ \E i, j \in 1..Len(writes) :
           /\ i < j
           /\ ~writes[i].ok
           /\ writes[j].ok

----------------------------------------------------------------------------
(* C18: an entry json.Marshal cannot encode. *)

\* the step is writeJSON returning after json.Marshal failed
MarshalFailsStep == Len(dropped') = Len(dropped) + 1

\* the entries writeJSON has given up
Dropped == {dropped[i] : i \in 1..Len(dropped)}

----------------------------------------------------------------------------
(* C19: delivery without Close. *)

\* the n-th send has happened
Sent(n) == Len(enq) >= n

\* the entry of the n-th send is in the sink
Delivered(n) == IF Len(enq) >= n THEN TimesWritten(enq[n].ts) = 1 ELSE FALSE

\* the n-th send has happened and json.Marshal cannot encode its entry
SentUnmarshalable(n) == IF Len(enq) >= n THEN Unmarshalable(enq[n]) ELSE FALSE

\* writeJSON has given up the entry of the n-th send
GivenUp(n) == IF Len(enq) >= n THEN enq[n].ts \in Dropped ELSE FALSE

\* C19 as stated: in an engine that is never closed, with the consumer scheduled
\* and Write calls returning, every entry that was sent is eventually written to
\* the sink.
C19_EverySentEntryDelivered ==
    \A n \in 1..MaxLiveCalls : Sent(n) ~> Delivered(n)

\* C19, amended: in an engine that is never closed, with the consumer scheduled
\* and Write calls returning, every entry that was sent is eventually written to
\* the sink, except the entries of the JSON encoder whose fields json.Marshal
\* cannot encode, which are eventually given up and never written.
C19_EveryEncodableEntryDelivered ==
    \A n \in 1..MaxLiveCalls :
        /\ (Sent(n) /\ ~SentUnmarshalable(n)) ~> Delivered(n)
        /\ SentUnmarshalable(n) ~> GivenUp(n)
        /\ [](SentUnmarshalable(n) => ~Delivered(n))

\* with Close never called, entries of two producers are in the sink and the
\* channel is empty
C19_Witness ==
    /\ closeMark.by = 0
    /\ ~chanClosed
    /\ entChan = <<>>
    /\ \E i, j \in 1..Len(enq) :
           /\ enq[i].by # enq[j].by
           /\ Delivered(i)
           /\ Delivered(j)

----------------------------------------------------------------------------
(* C20: Close terminates. *)

\* C20: with one producer, so that no other call is in flight, and Write calls
\* returning, the producer's Close returns eventually, whatever the channel
\* holds when it is called, a full channel included, for logger.Close and for
\* the simple Logger's Close; and Close has returned only if the consumer has
\* left its loop and closed doneChan.
C20_CloseTerminates ==
    /\ <>CloseReturned
    /\ []((\E p \in Producers : p \in closeRet) => (cpc = "done" /\ doneChan))
    /\ []((Len(entChan) = ChanCap /\ pc[1] = "ready" /\ closeMark.by = 0)
              ~> CloseReturned)

\* Close has returned after it met a channel filled to its capacity (to one less
\* than its capacity for the simple Logger, whose Close needs the slot for nil)
C20_Witness ==
    /\ CloseReturned
    /\ Len(enq) >= ChanCap
    /\ closeMark.occ = IF Leveled THEN ChanCap ELSE ChanCap - 1
    /\ cpc = "done"

----------------------------------------------------------------------------
(* C21: the leveled logger used after Close. *)

\* C21: on the leveled logger, once Close has returned, a log call the level
\* policy admits (every Print call included) ends in the run-time panic of a
\* send on a closed channel: it is never kept waiting, the producer never gets
\* back to the application, nothing is queued, and no Write call is made or
\* returns from then on.
C21_UseAfterCloseFailsFast ==
    /\ [][(Leveled /\ CloseReturned /\ LogCallStep /\ Admitted(level, lastCall'.sev)) =>
             /\ lastCall'.res = "panic"
             /\ pc'[lastCall'.by] = "sendOnClosed"
             /\ UNCHANGED <<entChan, enq, inWrite, out, cpc>>]_vars
    /\ [](\A p \in Producers :
             (Leveled /\ CloseReturned /\ ~exited /\ pc[p] = "ready" /\ MayCall) =>
                 /\ ENABLED PrintCall(p, 1, "")
                 /\ ENABLED Log(p, 1, ErrorLevel, "")
                 /\ ENABLED Panic(p, 1, ""))
    /\ [][\A p \in Producers :
             pc[p] = "sendOnClosed" => pc'[p] = "sendOnClosed"]_vars
    /\ [][(Leveled /\ CloseReturned) => UNCHANGED <<inWrite, out, writes>>]_vars

\* after Close returned, a call of a severity under a threshold that admits it
\* has ended in the panic of the send
C21_Witness ==
    /\ Leveled
    /\ CloseReturned
    /\ level # NoLevel
    /\ lastCall.sev # NoLevel
    /\ lastCall.res = "panic"
    /\ pc[lastCall.by] = "sendOnClosed"

----------------------------------------------------------------------------
(* C22: the simple Logger used after Close. *)

\* producer p is in the application, after the Close that stopped the simple
\* Logger has returned, and about to make a call
AfterSimpleClose(p) ==
    /\ writeFunc = "output"
    /\ CloseReturned
    /\ ~exited
    /\ pc[p] = "ready"
    /\ MayCall

\* C22 as stated: on the simple Logger a Print call made after Close has
\* returned blocks: it cannot complete.
C22_PrintAfterCloseBlocks ==
    \A p \in Producers : AfterSimpleClose(p) => ~(ENABLED PrintCall(p, 1, ""))

\* C22, amended: on the simple Logger a Print call made after Close has returned
\* completes, leaving its entry in the channel, while the channel has a free
\* slot, and blocks once the channel holds its 64 entries; nothing is received
\* from the channel or written after Close has returned, so the entries stay
\* unwritten and a blocked call stays blocked.
C22_PrintAfterCloseBlocksWhenFull ==
    /\ [](\A p \in Producers : AfterSimpleClose(p) =>
             (~(ENABLED PrintCall(p, 1, "")) <=> QueueFull))
    /\ [][(writeFunc = "output" /\ CloseReturned) =>
             /\ Len(entChan') >= Len(entChan)
             /\ SubSeq(entChan', 1, Len(entChan)) = entChan
             /\ UNCHANGED <<cpc, inWrite, out, writes>>]_vars
    /\ [][(writeFunc = "output" /\ CloseReturned /\ LogCallStep) =>
             /\ lastCall'.res = "enqueued"
             /\ pc'[lastCall'.by] = "ready"]_vars

\* after Close returned the producer has filled the channel with entries that
\* are not written, and its next Print cannot complete
C22_Witness ==
    /\ AfterSimpleClose(1)
    /\ QueueFull
    /\ ~(ENABLED PrintCall(1, 1, ""))
    /\ \A i \in 1..Len(entChan) : TimesWritten(entChan[i].ts) = 0
    /\ cpc = "done"

----------------------------------------------------------------------------
(* C23: a closed engine stays closed. *)

\* the entries sent after the nil entry that stops the simple Logger
BehindSentinel == {enq[i] : i \in (closeMark.n + 1)..Len(enq)}

\* C23: once the consumer has left its loop and a Close has returned, no Write
\* call is made or returns and the consumer never runs again, in the leveled
\* logger and in the simple Logger, whatever the producers call afterwards; in
\* the simple Logger an entry sent behind the nil entry gets no Write call.
C23_ClosedIsTerminal ==
    /\ [][(cpc = "done" /\ closeRet # {}) => UNCHANGED <<cpc, inWrite, out, writes>>]_vars
    /\ []((writeFunc = "output" /\ closeMark.by # 0) =>
             \A e \in BehindSentinel : WriteCallsFor(e.ts) = 0)

\* the simple Logger is closed, lines were written, and an entry another
\* producer sent behind the nil entry is left in the channel
C23_Witness ==
    /\ writeFunc = "output"
    /\ CloseReturned
    /\ cpc = "done"
    /\ Len(out) >= 1
    /\ \E e \in BehindSentinel : e.by # closeMark.by /\ Pending(e)

----------------------------------------------------------------------------
(* C24: the leveled logger closed twice. *)

\* the step is producer p's Close reaching its first statement: called by the
\* application, deferred, or from inside Panic / Fatal
CloseCallStep(p) ==
    /\ pc[p] \in {"ready", "panicked", "Close"}
    /\ pc'[p] \in {"wait", "closeOfClosed"}

\* C24: on the leveled logger a Close invoked after the engine was closed, by
\* Close or from inside a Panic or Fatal call, through whichever handle, ends
\* in the run-time panic of closing a closed channel: it changes nothing of the
\* engine, it is never kept waiting, and it never returns.
C24_SecondCloseRaises ==
    /\ [][\A p \in Producers :
             (Leveled /\ closeMark.by # 0 /\ CloseCallStep(p)) =>
                 /\ pc'[p] = "closeOfClosed"
                 /\ UNCHANGED <<chanClosed, entChan, doneChan, closeRet, closeMark, cpc,
                                inWrite, out>>]_vars
    /\ [](\A p \in Producers :
             (Leveled /\ closeMark.by # 0 /\ ~exited /\ MayCall) =>
                 /\ pc[p] = "ready" => ENABLED Close(p)
                 /\ pc[p] = "panicked" => ENABLED DeferredClose(p))
    /\ [][\A p \in Producers :
             pc[p] = "closeOfClosed" =>
                 /\ pc'[p] = "closeOfClosed"
                 /\ (p \in closeRet') = (p \in closeRet)]_vars

\* a Panic through the scoped logger closed the engine and raised its panic, and
\* the Close deferred by the same goroutine has ended in the run-time panic
C24_Witness ==
    /\ Leveled
    /\ closeMark.via = "panic"
    /\ lastCall.lg # 1
    /\ lastCall.sev = PanicLevel
    /\ closeMark.by \in closeRet
    /\ pc[closeMark.by] = "closeOfClosed"

----------------------------------------------------------------------------
(* C25: encoding twice. *)

\* the field sets of the scoped loggers are what WithFields made them
FieldSetsKept ==
    \A l \in 2..Len(loggers) : heap[loggers[l].fields] = loggers[l].own

\* C25 as stated: the text encoder and the JSON encoder, applied twice to the
\* same entry with the same field set under the same configuration, hand the
\* same bytes to Write both times, and leave the field set as it was.
C25_EncodingIdempotent ==
    /\ \A i, j \in 1..Len(out) : out[i].ent = out[j].ent => out[i] = out[j]
    /\ FieldSetsKept

\* what does hold: an entry with no field set at all (a call through the base
\* logger) is encoded to the same bytes every time, by either encoder, and the
\* text encoder never changes a field set.
C25_FieldlessEncodingIdempotent ==
    /\ \A i, j \in 1..Len(out) :
           (out[i].ent = out[j].ent /\ out[i].ent < EntryId(2, NoLevel))
               => out[i] = out[j]
    /\ writeFunc = "writeText" => FieldSetsKept

----------------------------------------------------------------------------
(* C26: JSON objects of a scoped logger with plain keys. *)

\* the keys the object of an entry should have: the caller-supplied keys of its
\* logger and the reserved keys the encoder computes for it
ExpectedKeys(ent) ==
    DOMAIN Supplied(ent.lg) \cup {k \in ReservedKeys : Computes(k, ent)}

\* the callers gave the logger none of the keys time, level, msg
PlainKeys(l) == DOMAIN Supplied(l) \cap ReservedKeys = {}

\* C26: under the JSON encoder, every object written for a call through a scoped
\* logger whose caller-supplied fields have none of the keys time, level, msg
\* has exactly the caller-supplied keys and the reserved keys, hence no
\* fields.time, fields.level or fields.msg, however many calls went through
\* that logger or through loggers derived from it.
C26_PlainFieldsNeverAliased ==
    writeFunc = "writeJSON" =>
        \A i \in 1..Len(out) :
            LET ent == EntryOf(out[i].ent) IN
            (ent.lg > 1 /\ PlainKeys(ent.lg)) => DOMAIN out[i].obj = ExpectedKeys(ent)

\* the same for an entry whose map still holds what the callers supplied when
\* the encoder receives it: the first object of a map has no alias
C26_UnwrittenMapNeverAliased ==
    writeFunc = "writeJSON" =>
        \A i \in 1..Len(entChan) :
            LET ent == entChan[i] IN
            (ent.lg > 1 /\ PlainKeys(ent.lg) /\ FieldsOf(ent) = Supplied(ent.lg))
                => DOMAIN jsonFields(ent) = ExpectedKeys(ent)

----------------------------------------------------------------------------
(* C27: the entry channel is closed once. *)

C27_OnlyFinalizerClosesTwice ==
    /\ \A p \in Producers : pc[p] # "closeOfClosed"
    /\ finpc # "closed"
    /\ finpc # "armed" => (closeMark.by # 0 /\ chanClosed /\ cpc = "done")

----------------------------------------------------------------------------
(* C28: the simple Logger closed again. *)

\* C28 as stated: on the simple Logger a Close called after the first Close has
\* returned is never kept waiting, however many Close calls were made before.
C28_RepeatedCloseReturns ==
    \A p \in Producers : AfterSimpleClose(p) => ENABLED Close(p)

\* C28, amended: on the simple Logger a Close called after the first Close has
\* returned leaves one more nil entry in the channel, which nothing receives,
\* and returns without waiting and without a write, while the channel has a
\* free slot; once the channel holds its 64 entries the Close blocks at its
\* send, and stays blocked.
C28_RepeatedCloseReturnsUntilFull ==
    /\ [](\A p \in Producers : AfterSimpleClose(p) =>
             (~(ENABLED Close(p)) <=> QueueFull))
    /\ [](\A p \in Producers :
             (writeFunc = "output" /\ CloseReturned /\ ~exited /\ pc[p] = "wait")
                 => ENABLED CloseDone(p))
    /\ [][\A p \in Producers :
             (writeFunc = "output" /\ CloseReturned /\ CloseCallStep(p)) =>
                 /\ entChan' = Append(entChan, nilEntry)
                 /\ UNCHANGED <<cpc, doneChan, inWrite, out>>]_vars
    /\ [][(writeFunc = "output" /\ CloseReturned) =>
             /\ Len(entChan') >= Len(entChan)
             /\ UNCHANGED <<inWrite, out>>]_vars

\* Close has returned 65 times and left the channel full of nil entries, and the
\* next Close cannot send
C28_Witness ==
    /\ AfterSimpleClose(1)
    /\ QueueFull
    /\ \A i \in 1..Len(entChan) : entChan[i] = nilEntry
    /\ ~(ENABLED Close(1))

----------------------------------------------------------------------------
(* C29: the threshold. *)

\* C29: the threshold of a leveled logger always lies within NoLevel..DebugLevel:
\* it is NoLevel when the constructor was asked for a level below NoLevel,
\* DebugLevel when asked for one above DebugLevel, the level asked for
\* otherwise; and no step (a log call, WithFields, Close, the consumer) changes it.
C29_ThresholdClampedAndFixed ==
    /\ [](Leveled => level \in NoLevel..DebugLevel)
    /\ [](Leveled => level = (IF asked < NoLevel THEN NoLevel
                              ELSE IF asked > DebugLevel THEN DebugLevel ELSE asked))
    /\ [][level' = level]_vars

\* the constructor was asked for a level out of range, and calls were logged,
\* a scoped logger derived and the engine closed since
C29_Witness ==
    /\ Leveled
    /\ asked \notin NoLevel..DebugLevel
    /\ level \in {NoLevel, DebugLevel}
    /\ Len(loggers) >= 2
    /\ lastCall.n > 0
    /\ CloseReturned

====
